---- MODULE Spec2Model ----
(***************************************************************************)
(* A model of the system monitor (src/monitor.py; src/monitorV1.py is the  *)
(* same design): the configuration merge of load_config and the sampling   *)
(* loop of main, statement by statement, with the interrupt signal         *)
(* (KeyboardInterrupt) deliverable at every statement of the loop.         *)
(***************************************************************************)
EXTENDS Integers, Sequences, FiniteSets, TLC

VARIABLES
    config_json,   \* the file config.json as load_config finds it
    args_log,      \* the --log command-line flag (args.log)
    cfg,           \* the global cfg: a map from keys to JSON values
    pc,            \* the statement of main that executes next
    old_net,       \* main's old_net: the previous network counters
    net,           \* main's net: the counters read in this iteration
    cpu,           \* main's cpu (percent)
    mem,           \* main's mem.percent
    disk,          \* main's disk.percent (the root volume)
    ping,          \* main's ping: the result of get_ping()
    sent,          \* main's sent (upload rate)
    recv,          \* main's recv (download rate)
    log_path,      \* the file at cfg['log_file']: whether it exists, and its rows
    fh,            \* log_metrics' open file f: its mode and its buffer
    screen,        \* the lines on the display since the last clear_screen()
    parts,         \* the partitions the storage section has still to visit
    exit_code,     \* <<status>> once the process has exited, <<>> before
    raised_at,     \* the statement whose exception ended the process, "none" if none did
    signalled,     \* an interrupt signal was delivered to this run of the loop
    volumes,       \* the machine's partitions, as psutil.disk_partitions() lists them
    reads,         \* history: the network counters this run has read, in order
    iters,         \* history: iterations started, all runs
    done_iters,    \* history: iterations completed (frame drawn to its last line), all runs
    writes,        \* history: log_metrics calls that wrote and returned, all runs
    runs,          \* history: runs of the program started so far
    probe,         \* history: the outcome of this iteration's connection attempt
    vols,          \* history: the outcome of each volume read of this iteration's storage section
    call,          \* a display helper called on its own: its name and arguments
    ret            \* what that call returned

vars == <<call, ret, config_json, args_log, cfg, pc, old_net, net, cpu, mem, disk, ping, sent, recv,
          log_path, fh, screen, parts, exit_code, raised_at, signalled, volumes,
          reads, iters, done_iters, writes, runs, probe, vols>>

-----------------------------------------------------------------------------
(* JSON values, as json.load returns them.  A string is its sequence of     *)
(* characters, so that Python's substring test is computed, not assumed.    *)

JNull == [k |-> "null"]
JBool(b) == [k |-> "bool", b |-> b]
JNum(n, d) == [k |-> "num", n |-> n, d |-> d]
JStr(s) == [k |-> "str", s |-> s]
JList(items) == [k |-> "list", items |-> items]
JObj(m) == [k |-> "obj", m |-> m]

S_red == <<"r", "e", "d">>
S_green == <<"g", "r", "e", "e", "n">>
S_yellow == <<"y", "e", "l", "l", "o", "w">>
S_blue == <<"b", "l", "u", "e">>
S_label == <<"l", "a", "b", "e", "l">>
S_xlabel == <<"x", "l", "a", "b", "e", "l">>
S_ping_target == <<"8", ".", "8", ".", "8", ".", "8">>
S_log_file == <<"s", "y", "s", "t", "e", "m", "_", "m", "e", "t", "r", "i", "c", "s", ".", "c", "s", "v">>

\* The characters of a dictionary key, for the tests that compare a key with a string.
KeyChars(key) == IF key = "label" THEN S_label ELSE <<key>>

DefaultThresholds ==
    [t \in {"mid", "high"} |-> IF t = "mid" THEN JNum(50, 1) ELSE JNum(80, 1)]

DefaultColors ==
    [c \in {"label", "value_low", "value_mid", "value_high", "alert"} |->
        CASE c = "label" -> JStr(S_red)
          [] c = "value_low" -> JStr(S_green)
          [] c = "value_mid" -> JStr(S_yellow)
          [] c = "value_high" -> JStr(S_red)
          [] c = "alert" -> JStr(S_red)]

DEFAULT_CONFIG ==
    [f \in {"refresh_rate", "ping_target", "ping_port", "show_cpu_per_core",
            "logging_enabled", "log_file", "thresholds", "colors"} |->
        CASE f = "refresh_rate" -> JNum(1, 2)
          [] f = "ping_target" -> JStr(S_ping_target)
          [] f = "ping_port" -> JNum(53, 1)
          [] f = "show_cpu_per_core" -> JBool(TRUE)
          [] f = "logging_enabled" -> JBool(FALSE)
          [] f = "log_file" -> JStr(S_log_file)
          [] f = "thresholds" -> JObj(DefaultThresholds)
          [] f = "colors" -> JObj(DefaultColors)]

\* {**a, **b}: the keys of both, b's value where both have the key.
DictMerge(a, b) ==
    [key \in (DOMAIN a) \cup (DOMAIN b) |-> IF key \in DOMAIN b THEN b[key] ELSE a[key]]

\* d[key] = v on a dictionary.
DictSet(d, key, v) ==
    [x \in (DOMAIN d) \cup {key} |-> IF x = key THEN v ELSE d[x]]

\* s occurs in t as a contiguous run of characters (Python's str in str).
IsSubstring(s, t) ==
    \E i \in 0..(Len(t) - Len(s)) : \A j \in 1..Len(s) : t[i + j] = s[j]

\* Python's `key in x`: "T", "F", or "TypeError" when x is not a container.
PyIn(key, x) ==
    CASE x.k = "obj" -> IF key \in DOMAIN x.m THEN "T" ELSE "F"
      [] x.k = "str" -> IF IsSubstring(KeyChars(key), x.s) THEN "T" ELSE "F"
      [] x.k = "list" ->
            IF \E i \in 1..Len(x.items) : x.items[i] = JStr(KeyChars(key))
            THEN "T" ELSE "F"
      [] OTHER -> "TypeError"

Raised == [raised |-> TRUE]
Returned(v) == [raised |-> FALSE, v |-> v]

\* The try block of load_config on the parsed document: the merged cfg, or
\* Raised when a statement of the block raises.
MergeLoaded(loaded) ==
    IF loaded.k # "obj" THEN Raised   \* {**DEFAULT_CONFIG, **loaded}: not a mapping
    ELSE LET merged == DictMerge(DEFAULT_CONFIG, loaded.m)
             colors == merged["colors"]
             absent == IF "colors" \notin DOMAIN loaded.m THEN "T"
                       ELSE CASE PyIn("label", loaded.m["colors"]) = "T" -> "F"
                              [] PyIn("label", loaded.m["colors"]) = "F" -> "T"
                              [] OTHER -> "TypeError"
         IN  CASE absent = "TypeError" -> Raised
               [] absent = "F" -> Returned(merged)
               [] OTHER ->
                    \* cfg["colors"]["label"] = "red"
                    IF colors.k = "obj"
                    THEN Returned([merged EXCEPT !["colors"] =
                                      JObj(DictSet(colors.m, "label", JStr(S_red)))])
                    ELSE Raised

\* load_config: the value of the global cfg after the call.
load_config(file) ==
    IF file.st = "absent" THEN DEFAULT_CONFIG
    ELSE IF file.st \in {"unreadable", "malformed"} THEN DEFAULT_CONFIG
    ELSE LET r == MergeLoaded(file.doc)
         IN  IF r.raised THEN DEFAULT_CONFIG ELSE r.v

-----------------------------------------------------------------------------
(* Helpers of the sampling loop.                                            *)

MaxIter == 2      \* iterations one run of the program may start
MaxRuns == 2      \* runs of the program

None == [k |-> "none"]
Ms(v) == [k |-> "ms", v |-> v]

\* Python's truth value of a JSON value or of get_ping()'s result.
Truthy(x) ==
    CASE x.k = "none" -> FALSE
      [] x.k = "ms" -> x.v # 0
      [] x.k = "null" -> FALSE
      [] x.k = "bool" -> x.b
      [] x.k = "num" -> x.n # 0
      [] x.k = "str" -> Len(x.s) > 0
      [] x.k = "list" -> Len(x.items) > 0
      [] x.k = "obj" -> DOMAIN x.m # {}

Abs(i) == IF i < 0 THEN -i ELSE i

RECURSIVE GCD(_, _)
GCD(a, b) == IF b = 0 THEN a ELSE GCD(b, a % b)

\* The number n/d in lowest terms, d > 0.
Rat(n, d) ==
    LET g == GCD(Abs(n), Abs(d))
        s == IF d < 0 THEN -1 ELSE 1
    IN  [n |-> (s * n) \div g, d |-> (s * d) \div g]

\* delta / rate, for an integer delta and a JSON number rate # 0.
Rate(delta, rate) == Rat(delta * rate.d, rate.n)

\* percent < x for an integer percent and a JSON number x.
Less(percent, x) == percent * x.d < x.n

GetColorByPercentInclusive(percent, c) ==
    LET th == c["thresholds"]
        co == c["colors"]
        pick(key) == IF co.k = "obj" /\ key \in DOMAIN co.m /\ co.m[key].k \notin {"list", "obj"}
                     THEN Returned(key) ELSE Raised
    IN  IF th.k # "obj" \/ "mid" \notin DOMAIN th.m \/ th.m["mid"].k # "num" THEN Raised
        ELSE IF ~Less(-percent, [n |-> -th.m["mid"].n, d |-> th.m["mid"].d]) THEN pick("value_low")
        ELSE IF "high" \notin DOMAIN th.m \/ th.m["high"].k # "num" THEN Raised
        ELSE IF ~Less(-percent, [n |-> -th.m["high"].n, d |-> th.m["high"].d]) THEN pick("value_mid")
        ELSE pick("value_high")

\* get_color_by_percent: the configured colour name of percent's tier, or
\* Raised when a lookup in cfg raises (KeyError, TypeError).
get_color_by_percent(percent, c) ==
    LET th == c["thresholds"]
        co == c["colors"]
        pick(key) == IF co.k = "obj" /\ key \in DOMAIN co.m /\ co.m[key].k \notin {"list", "obj"}
                     THEN Returned(key) ELSE Raised
    IN  IF th.k # "obj" \/ "mid" \notin DOMAIN th.m \/ th.m["mid"].k # "num" THEN Raised
        ELSE IF Less(percent, th.m["mid"]) THEN pick("value_low")
        ELSE IF "high" \notin DOMAIN th.m \/ th.m["high"].k # "num" THEN Raised
        ELSE IF Less(percent, th.m["high"]) THEN pick("value_mid")
        ELSE pick("value_high")

\* A line on the display: what it is, and the value n/d it shows (0/1 when none).
Line(l, n, d) == [l |-> l, n |-> n, d |-> d]
Text(l) == Line(l, 0, 1)

\* The rows of the log file.
HeaderRow == <<"Time", "CPU", "RAM", "Disk", "Down", "Up", "Ping">>
NoFile == [exists |-> FALSE, rows |-> <<>>]
Closed == [open |-> FALSE, mode |-> "a", buf |-> <<>>]

Percents == {10, 90}
MemPercents == {40}
DiskPercents == {70}
Latencies == {0, 50}
StartCounters == [bytes_sent |-> 1000, bytes_recv |-> 2000]
Deltas == {[bytes_sent |-> 0, bytes_recv |-> 0], [bytes_sent |-> 1000, bytes_recv |-> 2000]}
Machines == {<<"C:">>}

\* The statements of the while loop (the body of main's try).
GatherPcs == {"cpu", "disk", "ping", "rates"}
LogPcs == {"log", "log_header", "log_row", "log_close"}
RenderPcs == {"hdr", "cpusec", "memsec", "sto_top", "sto_part", "netsec"}
LoopPcs == GatherPcs \cup LogPcs \cup {"clear"} \cup RenderPcs
Running == pc \in LoopPcs

-----------------------------------------------------------------------------
(* Startup: main, lines 276-309.                                            *)

\* An exception other than KeyboardInterrupt reaches no handler in main: the
\* process ends with a traceback and status 1.
Crash(at) ==
    /\ pc' = "crashed"
    /\ exit_code' = <<1>>
    /\ raised_at' = at

\* load_config() (line 283).
LoadConfig ==
    /\ pc = "load"
    /\ cfg' = load_config(config_json)
    /\ pc' = "args"
    /\ UNCHANGED <<call, ret, config_json, volumes, args_log, old_net, net, cpu, mem, disk, ping, sent, recv,
                   log_path, fh, screen, parts, exit_code, signalled, reads,
                   done_iters, writes, runs, iters, probe, vols,
                   raised_at>>

\* cfg['colors']['label'] (line 288) raises unless colors is a dictionary holding label.
LabelLookupRaises(c) == c["colors"].k # "obj" \/ "label" \notin DOMAIN c["colors"].m

\* if args.log: cfg['logging_enabled'] = True, the colour shortcuts, the box
\* headers and the starting message (lines 285-308).
ParseArgs ==
    /\ pc = "args"
    /\ cfg' = IF args_log THEN DictSet(cfg, "logging_enabled", JBool(TRUE)) ELSE cfg
    /\ IF LabelLookupRaises(cfg')
       THEN /\ Crash("args")
            /\ UNCHANGED screen
       ELSE /\ pc' = "init_net"
            /\ screen' = <<Text("Starting System Monitor...")>>
            /\ UNCHANGED <<exit_code, raised_at>>
    /\ UNCHANGED <<call, ret, config_json, volumes, args_log, old_net, net, cpu, mem, disk, ping, sent, recv,
                   log_path, fh, parts, signalled, reads,
                   done_iters, writes, runs, iters, probe, vols>>

\* old_net = psutil.net_io_counters() (line 309).
InitNet ==
    /\ pc = "init_net"
    /\ old_net' = StartCounters
    /\ reads' = <<StartCounters>>
    /\ pc' = "cpu"
    /\ UNCHANGED <<call, ret, config_json, volumes, args_log, cfg, net, cpu, mem, disk, ping, sent, recv,
                   log_path, fh, screen, parts, exit_code, signalled,
                   done_iters, writes, runs, iters, probe, vols,
                   raised_at>>

-----------------------------------------------------------------------------
(* The gathering statements of an iteration: lines 314-325.                 *)

\* cpu, cpu_freq, cores, mem, swap and net (lines 314-319); cpu_percent
\* blocks for cfg['refresh_rate'] seconds and raises on an interval that is
\* no positive number.
Gather ==
    /\ pc = "cpu"
    /\ iters < MaxIter
    /\ iters' = iters + 1
    /\ probe' = "none"
    /\ vols' = <<>>
    /\ IF cfg["refresh_rate"].k # "num" \/ cfg["refresh_rate"].n <= 0
       THEN Crash(pc) /\ UNCHANGED <<cpu, mem, net, reads>>
       ELSE /\ cpu' \in Percents
            /\ mem' \in MemPercents
            /\ \E d \in Deltas :
                  LET last == reads[Len(reads)]
                      now == [bytes_sent |-> last.bytes_sent + d.bytes_sent,
                              bytes_recv |-> last.bytes_recv + d.bytes_recv]
                  IN  /\ net' = now
                      /\ reads' = Append(reads, now)
            /\ pc' = "disk"
            /\ UNCHANGED <<exit_code, raised_at>>
    /\ UNCHANGED <<call, ret, config_json, volumes, args_log, cfg, old_net, disk, ping, sent, recv,
                   log_path, fh, screen, parts, signalled, done_iters, writes, runs>>

\* disk = psutil.disk_usage(os.path.abspath(os.sep)) (line 320): not inside
\* any handler of its own, so a failed read raises out of the loop.
GatherDisk ==
    /\ pc = "disk"
    /\ \/ /\ disk' \in DiskPercents
          /\ pc' = "ping"
          /\ UNCHANGED <<exit_code, raised_at>>
       \/ Crash(pc) /\ UNCHANGED disk
    /\ UNCHANGED <<call, ret, config_json, volumes, args_log, cfg, old_net, net, cpu, mem, ping, sent, recv,
                   log_path, fh, screen, parts, signalled, reads,
                   done_iters, writes, runs, iters, probe, vols>>

CatchesTimeoutOnly(why) == why = "timeout"

\* The exceptions the except clause of get_ping catches (line 221): a bare
\* except catches every one.
Catches(why) == TRUE

\* get_ping() for an outcome of the connection attempt of lines 215-219: the
\* latency in milliseconds, None from the except clause, or the exception
\* when the clause does not catch it.
get_ping(outcome) ==
    IF outcome.ok THEN Returned(Ms(outcome.ms))
    ELSE IF Catches(outcome.why) THEN Returned(None)
    ELSE Raised

ProbeFailures == {"timeout", "refused", "unreachable", "dns"}

ProbeOutcomes ==
    {[ok |-> TRUE, ms |-> l, why |-> "connected"] : l \in Latencies}
        \cup {[ok |-> FALSE, ms |-> 0, why |-> w] : w \in ProbeFailures}

\* ping = get_ping() (line 321).
GatherPing ==
    /\ pc = "ping"
    /\ \E o \in ProbeOutcomes :
          /\ probe' = IF o.ok THEN "connected" ELSE "failed"
          /\ IF get_ping(o).raised
             THEN Crash(pc) /\ UNCHANGED ping
             ELSE /\ ping' = get_ping(o).v
                  /\ pc' = "rates"
                  /\ UNCHANGED <<exit_code, raised_at>>
    /\ UNCHANGED <<call, ret, config_json, volumes, args_log, cfg, old_net, net, cpu, mem, disk, sent, recv,
                   log_path, fh, screen, parts, signalled, reads,
                   done_iters, writes, runs, iters, vols>>

ComputeRatesKeepingOld(n, o, rate) ==
    [sent |-> Rate(n.bytes_sent - o.bytes_sent, rate),
     recv |-> Rate(n.bytes_recv - o.bytes_recv, rate),
     old_net |-> o]

\* sent, recv and old_net as lines 323-325 assign them.
ComputeRates(n, o, rate) ==
    [sent |-> Rate(n.bytes_sent - o.bytes_sent, rate),
     recv |-> Rate(n.bytes_recv - o.bytes_recv, rate),
     old_net |-> n]

\* Lines 323-325.
GatherRates ==
    /\ pc = "rates"
    /\ LET r == ComputeRates(net, old_net, cfg["refresh_rate"])
       IN  /\ sent' = r.sent
           /\ recv' = r.recv
           /\ old_net' = r.old_net
    /\ pc' = "log"
    /\ UNCHANGED <<call, ret, config_json, volumes, args_log, cfg, net, cpu, mem, disk, ping,
                   log_path, fh, screen, parts, exit_code, signalled, reads,
                   done_iters, writes, runs, iters, probe, vols,
                   raised_at>>

-----------------------------------------------------------------------------
(* log_metrics: lines 224-237, called at line 327.                          *)

\* The row log_metrics(cpu, ram, disk, down, up, ping) writes (lines 234-237).
DataRow(cpu_, ram_, disk_, down_, up_, ping_) ==
    <<"HH:MM:SS", cpu_, ram_, disk_, down_, up_, IF Truthy(ping_) THEN ping_.v ELSE 0>>

\* The row of the call at line 327: log_metrics(cpu, mem.percent, disk.percent, recv, sent, ping).
LoggedRow(cpu_, mem_, disk_, recv_, sent_, ping_) ==
    DataRow(cpu_, mem_, disk_, recv_, sent_, ping_)

\* mode = 'a' if os.path.isfile(cfg['log_file']) else 'w' (line 229).
OpenMode(file) == IF file.exists THEN "a" ELSE "w"

\* if mode == 'w' (line 232): the header is written by the call that creates the file.
NeedsHeader(mode) == mode = "w"

\* Closing f (the with statement's exit) flushes its buffer to the file.
Flushed(file, f) == [exists |-> TRUE, rows |-> file.rows \o f.buf]

\* Lines 228-230: the early return, or the choice of the mode and
\* open(cfg['log_file'], mode, newline=''): 'w' creates the file empty; a
\* failure (OSError) raises out of log_metrics and out of the loop.
LogOpen ==
    /\ pc = "log"
    /\ IF ~Truthy(cfg["logging_enabled"])
       THEN pc' = "clear" /\ UNCHANGED <<fh, log_path, exit_code, raised_at>>
       ELSE \/ /\ fh' = [open |-> TRUE, mode |-> OpenMode(log_path), buf |-> <<>>]
               /\ log_path' = [log_path EXCEPT !.exists = TRUE]
               /\ pc' = "log_header"
               /\ UNCHANGED <<exit_code, raised_at>>
            \/ Crash(pc) /\ UNCHANGED <<fh, log_path>>
    /\ UNCHANGED <<call, ret, config_json, volumes, args_log, cfg, old_net, net, cpu, mem, disk, ping,
                   sent, recv, screen, parts, signalled, reads, iters, done_iters, writes,
                   runs, probe, vols>>

\* if mode == 'w': wr.writerow([...header...]) (lines 232-233).
LogHeader ==
    /\ pc = "log_header"
    /\ fh' = IF NeedsHeader(fh.mode) THEN [fh EXCEPT !.buf = Append(@, HeaderRow)] ELSE fh
    /\ pc' = "log_row"
    /\ UNCHANGED <<call, ret, config_json, volumes, args_log, cfg, old_net, net, cpu, mem, disk, ping, sent, recv,
                   log_path, screen, parts, exit_code, signalled, reads,
                   done_iters, writes, runs, iters, probe, vols,
                   raised_at>>

\* wr.writerow([time, cpu, ram, disk, down, up, ping or 0]) (lines 234-237).
LogRow ==
    /\ pc = "log_row"
    /\ fh' = [fh EXCEPT !.buf = Append(@, LoggedRow(cpu, mem, disk, recv, sent, ping))]
    /\ pc' = "log_close"
    /\ UNCHANGED <<call, ret, config_json, volumes, args_log, cfg, old_net, net, cpu, mem, disk, ping, sent, recv,
                   log_path, screen, parts, exit_code, signalled, reads,
                   done_iters, writes, runs, iters, probe, vols,
                   raised_at>>

\* The end of the with block: f is closed and log_metrics returns.
LogClose ==
    /\ pc = "log_close"
    /\ log_path' = Flushed(log_path, fh)
    /\ fh' = Closed
    /\ writes' = writes + 1
    /\ pc' = "clear"
    /\ UNCHANGED <<call, ret, config_json, volumes, args_log, cfg, old_net, net, cpu, mem, disk, ping, sent, recv,
                   screen, parts, exit_code, signalled, reads,
                   done_iters, runs, iters, probe, vols,
                   raised_at>>

-----------------------------------------------------------------------------
(* Rendering one frame: lines 330-402.                                      *)

\* draw_bar(percent, length) raises when get_color_by_percent does (line 195).
DrawBarRaises(percent, c) == get_color_by_percent(percent, c).raised

\* clear_screen() and the top padding (lines 330-333).
ClearScreen ==
    /\ pc = "clear"
    /\ screen' = <<>>
    /\ pc' = "hdr"
    /\ UNCHANGED <<call, ret, config_json, volumes, args_log, cfg, old_net, net, cpu, mem, disk, ping, sent, recv,
                   log_path, fh, parts, exit_code, signalled, reads,
                   done_iters, writes, runs, iters, probe, vols,
                   raised_at>>

\* The header box and the uptime box (lines 336-346).
DrawHeader ==
    /\ pc = "hdr"
    /\ screen' = screen \o <<Text("MAIN_TOP"), Text("System Monitor Pro")>>
                        \o (IF Truthy(cfg["logging_enabled"])
                            THEN <<Text("[REC] LOGGING ENABLED")>> ELSE <<>>)
                        \o <<Text("MAIN_BOT"), Text("UPTIME_TOP"), Text("System Up"),
                             Text("UPTIME_BOT")>>
    /\ pc' = "cpusec"
    /\ UNCHANGED <<call, ret, config_json, volumes, args_log, cfg, old_net, net, cpu, mem, disk, ping,
                   sent, recv, log_path, fh, parts, exit_code, signalled, reads, iters,
                   done_iters, writes, runs, probe, vols,
                   raised_at>>

\* The CPU box (lines 349-364); the per-core rows are drawn by the same draw_bar.
DrawCpu ==
    /\ pc = "cpusec"
    /\ IF DrawBarRaises(cpu, cfg)
       THEN /\ Crash(pc)
            /\ screen' = Append(screen, Text("CPU_TOP"))
       ELSE /\ screen' = screen \o <<Text("CPU_TOP"), Line("Usage", cpu, 1)>>
                                \o (IF Truthy(cfg["show_cpu_per_core"])
                                    THEN <<Text("Cores")>> ELSE <<>>)
                                \o <<Text("CPU_BOT")>>
            /\ pc' = "memsec"
            /\ UNCHANGED <<exit_code, raised_at>>
    /\ UNCHANGED <<call, ret, config_json, volumes, args_log, cfg, old_net, net, cpu, mem, disk, ping, sent, recv,
                   log_path, fh, parts, signalled, reads,
                   done_iters, writes, runs, iters, probe, vols>>

\* The memory box (lines 367-380).
DrawMemory ==
    /\ pc = "memsec"
    /\ IF DrawBarRaises(mem, cfg)
       THEN /\ Crash(pc)
            /\ screen' = screen \o <<Text("RAM_TOP"), Text("Physical RAM")>>
       ELSE /\ screen' = screen \o <<Text("RAM_TOP"), Text("Physical RAM"),
                                     Line("Used", mem, 1), Text("Swap"), Text("RAM_BOT")>>
            /\ pc' = "sto_top"
            /\ UNCHANGED <<exit_code, raised_at>>
    /\ UNCHANGED <<call, ret, config_json, volumes, args_log, cfg, old_net, net, cpu, mem, disk, ping, sent, recv,
                   log_path, fh, parts, signalled, reads,
                   done_iters, writes, runs, iters, probe, vols>>

\* pr(STO_TOP) and the enumeration psutil.disk_partitions() (lines 383-384).
DrawStorageTop ==
    /\ pc = "sto_top"
    /\ screen' = Append(screen, Text("STO_TOP"))
    /\ parts' = volumes
    /\ pc' = "sto_part"
    /\ UNCHANGED <<call, ret, config_json, volumes, args_log, cfg, old_net, net, cpu, mem, disk, ping, sent, recv,
                   log_path, fh, exit_code, signalled, reads,
                   done_iters, writes, runs, iters, probe, vols,
                   raised_at>>

\* What the body of the for loop does with one partition (lines 385-389):
\* skipped by the continue of line 386, the read of line 387 raising, or its
\* row drawn; a raise inside draw_row's arguments is swallowed as well.
VolumeOutcome(readResult, c) ==
    CASE readResult.how = "cdrom" -> "skipped"
      [] readResult.how = "error" -> "failed"
      [] OTHER -> IF DrawBarRaises(readResult.percent, c) THEN "undrawn" ELSE "drawn"

ReadResults ==
    {[how |-> "cdrom", percent |-> 0], [how |-> "error", percent |-> 0]}
        \cup {[how |-> "ok", percent |-> q] : q \in DiskPercents}

DrawVolumeBreaking ==
    /\ pc = "sto_part"
    /\ parts # <<>>
    /\ \E r \in ReadResults :
          LET o == VolumeOutcome(r, cfg)
          IN  /\ vols' = Append(vols, o)
              /\ screen' = IF o = "drawn"
                           THEN Append(screen, Line("Volume", Len(vols) + 1, 1))
                           ELSE screen
              /\ parts' = IF o = "failed" THEN <<>> ELSE Tail(parts)
    /\ UNCHANGED <<call, ret, config_json, volumes, args_log, cfg, pc, old_net, net, cpu, mem, disk, ping,
                   sent, recv, log_path, fh, exit_code, signalled, reads,
                   done_iters, writes, runs, iters, probe,
                   raised_at>>

\* One pass of the for loop of the storage box.
DrawVolume ==
    /\ pc = "sto_part"
    /\ parts # <<>>
    /\ \E r \in ReadResults :
          LET o == VolumeOutcome(r, cfg)
          IN  /\ vols' = Append(vols, o)
              /\ screen' = IF o = "drawn"
                           THEN Append(screen, Line("Volume", Len(vols) + 1, 1))
                           ELSE screen
    /\ parts' = Tail(parts)
    /\ UNCHANGED <<call, ret, config_json, volumes, args_log, cfg, pc, old_net, net, cpu, mem, disk, ping, sent, recv,
                   log_path, fh, exit_code, signalled, reads,
                   done_iters, writes, runs, iters, probe,
                   raised_at>>

\* pr(STO_BOT) (lines 390-391).
DrawStorageBottom ==
    /\ pc = "sto_part"
    /\ parts = <<>>
    /\ screen' = Append(screen, Text("STO_BOT"))
    /\ pc' = "netsec"
    /\ UNCHANGED <<call, ret, config_json, volumes, args_log, cfg, old_net, net, cpu, mem, disk, ping, sent, recv,
                   log_path, fh, parts, exit_code, signalled, reads,
                   done_iters, writes, runs, iters, probe, vols,
                   raised_at>>

\* The ping row of the network box (lines 395-398).
PingRow(p) == IF Truthy(p) THEN Line("Ping ms", p.v, 1) ELSE Text("Ping Offline")

\* The network box (lines 394-402), the last lines of the frame.
DrawNetwork ==
    /\ pc = "netsec"
    /\ screen' = screen \o <<Text("NET_TOP"), PingRow(ping), Line("Down", recv.n, recv.d),
                             Line("Up", sent.n, sent.d), Text("NET_BOT")>>
    /\ done_iters' = done_iters + 1
    /\ pc' = "cpu"
    /\ UNCHANGED <<call, ret, config_json, volumes, args_log, cfg, old_net, net, cpu, mem, disk, ping, sent, recv,
                   log_path, fh, parts, exit_code, signalled, reads,
                   writes, runs, iters, probe, vols,
                   raised_at>>

-----------------------------------------------------------------------------
(* The interrupt signal, and the end of a run: lines 311, 404-406.          *)

\* The handler a KeyboardInterrupt raised at statement `at` reaches first: the
\* bare except of get_ping (lines 214-222), the bare except of the storage
\* loop's body (lines 385-389), or main's except KeyboardInterrupt (line 404).
HandlerAt(at, ps) ==
    CASE at = "ping" -> "get_ping"
      [] at = "sto_part" /\ ps # <<>> -> "volume"
      [] OTHER -> "main"

\* except KeyboardInterrupt: print("\nStopped."); sys.exit() (lines 404-406).
\* An open log file is closed, and so flushed, as the exception leaves the
\* with block of log_metrics.
Stop ==
    /\ log_path' = IF fh.open THEN Flushed(log_path, fh) ELSE log_path
    /\ fh' = Closed
    /\ screen' = Append(screen, Text("Stopped."))
    /\ pc' = "stopped"
    /\ exit_code' = <<0>>

\* The interrupt signal is delivered while the loop executes statement pc.
Interrupt ==
    /\ Running
    /\ signalled' = TRUE
    /\ LET h == HandlerAt(pc, parts)
       IN  CASE h = "get_ping" ->
                  /\ ping' = None
                  /\ probe' = "interrupt"
                  /\ pc' = "rates"
                  /\ UNCHANGED <<log_path, fh, screen, exit_code, parts, vols>>
             [] h = "volume" ->
                  /\ vols' = Append(vols, "failed")
                  /\ parts' = Tail(parts)
                  /\ UNCHANGED <<log_path, fh, screen, exit_code, ping, probe, pc>>
             [] OTHER ->
                  /\ Stop
                  /\ UNCHANGED <<ping, probe, parts, vols>>
    /\ UNCHANGED <<call, ret, config_json, volumes, args_log, cfg, old_net, net, cpu, mem, disk, sent, recv,
                   reads, done_iters, writes, runs, iters,
                   raised_at>>

\* No helper is called on its own while main runs.
NoCall == [fn |-> "none", args |-> <<>>]

ZeroCounters == [bytes_sent |-> 0, bytes_recv |-> 0]

\* The values of main's variables before main has run: a fresh process.
Fresh ==
    [cfg |-> <<>>, pc |-> "load", old_net |-> ZeroCounters, net |-> ZeroCounters,
     cpu |-> 0, mem |-> 0, disk |-> 0, ping |-> None, sent |-> Rat(0, 1),
     recv |-> Rat(0, 1), fh |-> Closed, screen |-> <<>>, parts |-> <<>>,
     exit_code |-> <<>>, signalled |-> FALSE, reads |-> <<>>, probe |-> "none",
     vols |-> <<>>]

\* A process that has not run main yet.
FreshRun ==
    /\ cfg = Fresh.cfg
    /\ pc = Fresh.pc
    /\ old_net = Fresh.old_net
    /\ net = Fresh.net
    /\ cpu = Fresh.cpu
    /\ mem = Fresh.mem
    /\ disk = Fresh.disk
    /\ ping = Fresh.ping
    /\ sent = Fresh.sent
    /\ recv = Fresh.recv
    /\ fh = Fresh.fh
    /\ screen = Fresh.screen
    /\ parts = Fresh.parts
    /\ exit_code = Fresh.exit_code
    /\ signalled = Fresh.signalled
    /\ reads = Fresh.reads
    /\ probe = Fresh.probe
    /\ vols = Fresh.vols

\* The program is started again; the files stay as the last run left them.
Restart ==
    /\ pc \in {"stopped", "crashed"}
    /\ runs < MaxRuns
    /\ runs' = runs + 1
    /\ cfg' = Fresh.cfg
    /\ pc' = Fresh.pc
    /\ old_net' = Fresh.old_net
    /\ net' = Fresh.net
    /\ cpu' = Fresh.cpu
    /\ mem' = Fresh.mem
    /\ disk' = Fresh.disk
    /\ ping' = Fresh.ping
    /\ sent' = Fresh.sent
    /\ recv' = Fresh.recv
    /\ fh' = Fresh.fh
    /\ screen' = Fresh.screen
    /\ parts' = Fresh.parts
    /\ exit_code' = Fresh.exit_code
    /\ signalled' = Fresh.signalled
    /\ reads' = Fresh.reads
    /\ probe' = Fresh.probe
    /\ vols' = Fresh.vols
    /\ raised_at' = "none"
    /\ UNCHANGED <<call, ret, config_json, volumes, args_log, log_path, iters, done_iters, writes>>

-----------------------------------------------------------------------------
(* The configuration files.                                                 *)

Missing == [k |-> "missing"]
Opt(S) == S \cup {Missing}

ColorKeys == {"label", "value_low", "value_mid", "value_high", "alert"}
ThresholdKeys == {"mid", "high"}

ColorObjects == {JObj([key \in K |-> JStr(S_blue)]) : K \in SUBSET ColorKeys}
ThresholdObjects == {JObj([key \in K |-> JNum(40, 1)]) : K \in SUBSET ThresholdKeys}
NonObjects ==
    {JNull, JNum(5, 1), JBool(TRUE), JStr(S_blue), JStr(S_label), JStr(S_xlabel),
     JList(<<>>), JList(<<JStr(S_label)>>), JList(<<JStr(S_blue)>>)}

\* The JSON object with the given members, those that are Missing left out.
DocOf(r, l, t, c) ==
    LET all == [key \in {"refresh_rate", "logging_enabled", "thresholds", "colors"} |->
                   CASE key = "refresh_rate" -> r
                     [] key = "logging_enabled" -> l
                     [] key = "thresholds" -> t
                     [] key = "colors" -> c]
        present == {key \in DOMAIN all : all[key] # Missing}
    IN  JObj([key \in present |-> all[key]])

ObjectDocuments ==
    {DocOf(r, l, t, c) : r \in Opt({JNum(1, 1)}), l \in Opt({JBool(TRUE)}),
                         t \in Opt(ThresholdObjects), c \in Opt(ColorObjects \cup NonObjects)}

Parsed(d) == [st |-> "parsed", doc |-> d]
NoDocument == {[st |-> "absent"], [st |-> "malformed"], [st |-> "unreadable"]}

\* Every state of config.json the merge is checked on.
ConfigFiles == NoDocument \cup {Parsed(d) : d \in NonObjects \cup ObjectDocuments}

\* The configuration files the sampling loop is run with.
LoopConfigFiles ==
    {[st |-> "absent"],
     Parsed(DocOf(JNum(1, 1), Missing, Missing, Missing)),
     Parsed(DocOf(Missing, Missing, JObj([key \in {"mid"} |-> JNum(40, 1)]), Missing)),
     Parsed(DocOf(Missing, Missing, Missing, JStr(S_label)))}

-----------------------------------------------------------------------------
(* The specifications.                                                      *)

Init ==
    /\ config_json \in LoopConfigFiles
    /\ args_log \in BOOLEAN
    /\ volumes \in Machines
    /\ log_path = NoFile
    /\ iters = 0
    /\ done_iters = 0
    /\ writes = 0
    /\ runs = 1
    /\ raised_at = "none"
    /\ call = NoCall
    /\ ret = NoCall
    /\ FreshRun

Next ==
    \/ LoadConfig
    \/ ParseArgs
    \/ InitNet
    \/ Gather
    \/ GatherDisk
    \/ GatherPing
    \/ GatherRates
    \/ LogOpen
    \/ LogHeader
    \/ LogRow
    \/ LogClose
    \/ ClearScreen
    \/ DrawHeader
    \/ DrawCpu
    \/ DrawMemory
    \/ DrawStorageTop
    \/ DrawVolume
    \/ DrawStorageBottom
    \/ DrawNetwork
    \/ Interrupt
    \/ Restart

Spec == Init /\ [][Next]_vars

\* The merge alone, on every configuration file: main up to line 308.
InitCfg ==
    /\ config_json \in ConfigFiles
    /\ args_log \in BOOLEAN
    /\ volumes \in Machines
    /\ log_path = NoFile
    /\ iters = 0
    /\ done_iters = 0
    /\ writes = 0
    /\ runs = 1
    /\ raised_at = "none"
    /\ call = NoCall
    /\ ret = NoCall
    /\ FreshRun

NextCfg ==
    \/ LoadConfig
    \/ ParseArgs

SpecCfg == InitCfg /\ [][NextCfg]_vars

\* One run of the loop on machines of several volumes, with no config.json.
FrameMachines == {<<"C:", "D:">>, <<"C:", "D:", "E:">>}

InitFrame ==
    /\ config_json = [st |-> "absent"]
    /\ args_log = FALSE
    /\ volumes \in FrameMachines
    /\ log_path = NoFile
    /\ iters = 0
    /\ done_iters = 0
    /\ writes = 0
    /\ runs = 1
    /\ raised_at = "none"
    /\ call = NoCall
    /\ ret = NoCall
    /\ FreshRun

NextFrame ==
    \/ LoadConfig
    \/ ParseArgs
    \/ InitNet
    \/ Gather
    \/ GatherDisk
    \/ GatherPing
    \/ GatherRates
    \/ LogOpen
    \/ ClearScreen
    \/ DrawHeader
    \/ DrawCpu
    \/ DrawMemory
    \/ DrawStorageTop
    \/ DrawVolume
    \/ DrawStorageBottom
    \/ DrawNetwork
    \/ Interrupt

SpecFrame == InitFrame /\ [][NextFrame]_vars

-----------------------------------------------------------------------------
(* The display helpers, each called on its own.                             *)

\* A call of the helper fn with the arguments args.
CallOf(fn, args) == [fn |-> fn, args |-> args]

MaxLength == 15     \* the longest bar asked of draw_bar

\* The characters of the strings the helpers build: a character is a string
\* of one letter, "ESC" is the escape character \x1B (\033), "BLOCK" the
\* solid block of a bar and "-" its filler.
COLORS ==
    [reset   |-> <<"ESC", "[", "0", "m">>,
     cyan    |-> <<"ESC", "[", "3", "6", "m">>,
     green   |-> <<"ESC", "[", "3", "2", "m">>,
     yellow  |-> <<"ESC", "[", "3", "3", "m">>,
     red     |-> <<"ESC", "[", "3", "1", "m">>,
     blue    |-> <<"ESC", "[", "3", "4", "m">>,
     magenta |-> <<"ESC", "[", "3", "5", "m">>,
     white   |-> <<"ESC", "[", "3", "7", "m">>,
     bold    |-> <<"ESC", "[", "1", "m">>]

\* The keys of COLORS, spelt out.
ColorName ==
    [reset   |-> <<"r", "e", "s", "e", "t">>,
     cyan    |-> <<"c", "y", "a", "n">>,
     green   |-> S_green,
     yellow  |-> S_yellow,
     red     |-> S_red,
     blue    |-> S_blue,
     magenta |-> <<"m", "a", "g", "e", "n", "t", "a">>,
     white   |-> <<"w", "h", "i", "t", "e">>,
     bold    |-> <<"b", "o", "l", "d">>]

\* get_ansi(color_name) for a JSON value: COLORS.get(color_name, COLORS['white']).
get_ansi(color_name) ==
    IF color_name.k = "str" /\ \E key \in DOMAIN COLORS : ColorName[key] = color_name.s
    THEN COLORS[CHOOSE key \in DOMAIN COLORS : ColorName[key] = color_name.s]
    ELSE COLORS["white"]

\* Python's ch * n: empty when n <= 0.
Rep(ch, n) == [i \in 1..(IF n < 0 THEN 0 ELSE n) |-> ch]

Min(a, b) == IF a < b THEN a ELSE b
Max(a, b) == IF a > b THEN a ELSE b

DrawBarUnclamped(percent, length, c) ==
    LET filled == (length * percent) \div 100
        color == get_color_by_percent(percent, c)
    IN  IF color.raised THEN Raised
        ELSE Returned(<<"[">> \o get_ansi(c["colors"].m[color.v])
                          \o Rep("BLOCK", filled) \o Rep("-", length - filled)
                          \o COLORS["reset"] \o <<"]">>)

\* draw_bar(percent, length) under the configuration c (lines 187-199).
draw_bar(percent, length, c) ==
    LET filled == Min(length, Max(0, (length * percent) \div 100))
        color == get_color_by_percent(percent, c)
    IN  IF color.raised THEN Raised
        ELSE Returned(<<"[">> \o get_ansi(c["colors"].m[color.v])
                          \o Rep("BLOCK", filled) \o Rep("-", length - filled)
                          \o COLORS["reset"] \o <<"]">>)

\* What get_color_by_percent(percent) returns under the configuration c: the
\* colour code of the tier's configured colour (lines 116-120).
ColorByPercent(percent, c) ==
    LET tier == get_color_by_percent(percent, c)
    IN  IF tier.raised THEN Raised ELSE Returned(get_ansi(c["colors"].m[tier.v]))

\* The percentages the bars are asked for, below 0 and above 100 among them.
BarPercents == {-120, -20, -1, 0, 1, 9, 10, 33, 39, 40, 49, 50, 57, 79, 80, 89, 90, 99, 100, 101, 250}

\* cfg as load_config leaves it for no config.json and for documents that
\* give both thresholds (mid < high, and mid > high) or every colour.
HelperConfigs ==
    {load_config([st |-> "absent"]),
     load_config(Parsed(DocOf(Missing, Missing,
         JObj([key \in ThresholdKeys |-> IF key = "mid" THEN JNum(40, 1) ELSE JNum(90, 1)]),
         Missing))),
     load_config(Parsed(DocOf(Missing, Missing,
         JObj([key \in ThresholdKeys |-> IF key = "mid" THEN JNum(80, 1) ELSE JNum(50, 1)]),
         Missing))),
     load_config(Parsed(DocOf(Missing, Missing, Missing,
         JObj([key \in ColorKeys |->
                  CASE key = "value_low" -> JStr(S_blue)
                    [] key = "value_mid" -> JStr(S_green)
                    [] key = "value_high" -> JStr(S_yellow)
                    [] OTHER -> JStr(S_red)]))))}

\* A byte count, written as its digits in base 1024, the most significant
\* first and not 0 unless the count is 0: <<1, 512>> is 1536.
Units == << <<>>, <<"K">>, <<"M">>, <<"G">>, <<"T">>, <<"P">> >>

DigitChar(i) == <<"0", "1", "2", "3", "4", "5", "6", "7", "8", "9">>[i + 1]

\* The decimal digits of n >= 0.
RECURSIVE Digits(_)
Digits(n) == IF n < 10 THEN <<DigitChar(n)>> ELSE Digits(n \div 10) \o <<DigitChar(n % 10)>>

\* The number of bits of d, 1 <= d < 1024.
BitLen(d) == CHOOSE b \in 1..10 : 2^(b - 1) <= d /\ d < 2^b

\* ds + c for a carry c of 0 or 1.
RECURSIVE AddCarry(_, _)
AddCarry(ds, c) ==
    IF c = 0 THEN ds
    ELSE IF ds = <<>> THEN <<c>>
    ELSE LET front == SubSeq(ds, 1, Len(ds) - 1)
             last == ds[Len(ds)] + c
         IN  IF last = 1024 THEN AddCarry(front, 1) \o <<0>> ELSE front \o <<last>>

\* The integer ds as a float keeps it: rounded to 53 significant bits, ties
\* to even (the true division bytes / factor of an int, line 131; the later
\* divisions of the float by 1024 are exact).
RoundToDouble(ds) ==
    LET len == Len(ds)
        r == 10 * (len - 1) + BitLen(ds[1]) - 53
    IN  IF len < 4 \/ r <= 0 THEN ds
        ELSE LET q == 2^r
                 low == (ds[len - 2] * 1024 + ds[len - 1]) * 1024 + ds[len]
                 fl == low \div q
                 rem == low % q
                 up == 2 * rem > q \/ (2 * rem = q /\ fl % 2 = 1)
                 low2 == (fl + IF up THEN 1 ELSE 0) * q
                 lo == low2 % (2^30)
             IN  AddCarry(SubSeq(ds, 1, len - 3), low2 \div (2^30))
                     \o <<lo \div (2^20), (lo \div 1024) % 1024, lo % 1024>>

\* 100 * 0.frac for a fraction in base 1024: the integer part c and the
\* fraction r that is left.
RECURSIVE Mul100(_)
Mul100(frac) ==
    IF frac = <<>> THEN [c |-> 0, r |-> <<>>]
    ELSE LET rest == Mul100(Tail(frac))
             t == Head(frac) * 100 + rest.c
         IN  [c |-> t \div 1024, r |-> <<t % 1024>> \o rest.r]

\* 100 * ds / 1024^j for 0 <= ds / 1024^j < 1024: its floor, whether the
\* rest is above a half, a half exactly, or nothing.
Hundredths(ds, j) ==
    LET whole == IF Len(ds) > j THEN ds[1] ELSE 0
        frac == IF Len(ds) > j THEN Tail(ds) ELSE ds
        m == Mul100(frac)
        more == \E i \in 2..Len(m.r) : m.r[i] # 0
    IN  [floor |-> whole * 100 + m.c,
         exact |-> \A i \in 1..Len(m.r) : m.r[i] = 0,
         above |-> m.r # <<>> /\ (m.r[1] > 512 \/ (m.r[1] = 512 /\ more)),
         half  |-> m.r # <<>> /\ m.r[1] = 512 /\ ~more]

\* h hundredths written with two decimals.
Decimal2(h) ==
    Digits(h \div 100) \o <<".">> \o <<DigitChar((h % 100) \div 10), DigitChar(h % 10)>>

\* f"{x:.2f}" for x = ds / 1024^j: rounded to nearest, ties to even.
Fixed2(ds, j) ==
    LET h == Hundredths(ds, j)
    IN  Decimal2(h.floor + IF h.above \/ (h.half /\ h.floor % 2 = 1) THEN 1 ELSE 0)

\* The for loop of get_size from its j-th unit on, bytes being ds / 1024^j
\* (lines 128-131); None when the loop ends without a return.
RECURSIVE GetSizeLoop(_, _)
GetSizeLoop(ds, j) ==
    IF j = Len(Units) THEN Returned(None)
    ELSE IF Len(ds) <= j + 1
         THEN Returned(JStr(Fixed2(ds, j) \o Units[j + 1] \o <<"B">>))
         ELSE GetSizeLoop(IF j = 0 THEN RoundToDouble(ds) ELSE ds, j + 1)

\* get_size(bytes) for an int bytes >= 0 (lines 122-131).
get_size(ds) == GetSizeLoop(ds, 0)

\* Byte counts of one to seven digits, up to 1024^7 - 1.
SizeDigits == {0, 1, 128, 1023}
ByteCounts ==
    {<<0>>, <<1, 512>>, <<1, 5>>, <<2, 691>>}
        \cup UNION {{<<d>> \o rest : d \in SizeDigits \ {0}, rest \in [1..len -> SizeDigits]} :
                       len \in 0..Len(Units)}

GetSizeCalls == {CallOf("get_size", <<ds>>) : ds \in ByteCounts}

DrawBarCalls == {CallOf("draw_bar", <<p, l>>) : p \in BarPercents, l \in 0..MaxLength}

\* The character classes of the pattern of line 248: ESC, then one character
\* of @ to Z or backslash to _, or else a bracket, characters of 0 to ?,
\* characters of space to /, and one character of @ to ~. "BACKSLASH",
\* "QUOTE", "APOSTROPHE" and "BACKTICK" are the characters of those names.
UpperChars ==
    {"A", "B", "C", "D", "E", "F", "G", "H", "I", "J", "K", "L", "M",
     "N", "O", "P", "Q", "R", "S", "T", "U", "V", "W", "X", "Y", "Z"}
LowerChars ==
    {"a", "b", "c", "d", "e", "f", "g", "h", "i", "j", "k", "l", "m",
     "n", "o", "p", "q", "r", "s", "t", "u", "v", "w", "x", "y", "z"}
EscapeChars == {"@"} \cup UpperChars \cup {"BACKSLASH", "]", "^", "_"}
ParameterChars == {"0", "1", "2", "3", "4", "5", "6", "7", "8", "9", ":", ";", "<", "=", ">", "?"}
IntermediateChars == {" ", "!", "QUOTE", "#", "$", "%", "&", "APOSTROPHE", "(", ")", "*", "+", ",", "-", ".", "/"}
FinalChars == {"@"} \cup UpperChars \cup {"[", "BACKSLASH", "]", "^", "_", "BACKTICK"} \cup LowerChars
                  \cup {"{", "|", "}", "~"}

\* The length of the longest prefix of s from position i on whose characters
\* are all in class.
RECURSIVE Run(_, _, _)
Run(s, i, class) == IF i <= Len(s) /\ s[i] \in class THEN 1 + Run(s, i + 1, class) ELSE 0

\* The length of the match of the pattern at the start of s, 0 when there is none.
MatchLen(s) ==
    IF Len(s) < 2 \/ s[1] # "ESC" THEN 0
    ELSE IF s[2] \in EscapeChars THEN 2
    ELSE IF s[2] # "[" THEN 0
    ELSE LET params == Run(s, 3, ParameterChars)
             inters == Run(s, 3 + params, IntermediateChars)
             final == 3 + params + inters
         IN  IF final <= Len(s) /\ s[final] \in FinalChars THEN final ELSE 0

\* ansi_escape.sub('', s): every match removed, scanning from the left.
RECURSIVE Sub(_)
Sub(s) ==
    IF s = <<>> THEN <<>>
    ELSE IF MatchLen(s) > 0 THEN Sub(SubSeq(s, MatchLen(s) + 1, Len(s)))
    ELSE <<Head(s)>> \o Sub(Tail(s))

RawLen(s) == Len(s)

\* visible_len(s) (lines 248-249).
visible_len(s) == Len(Sub(s))

MaxSegments == 3     \* the segments a string is put together from

\* The segments of the strings: colour codes and plain content, some of it
\* made of the characters codes are made of.
CodeSegments == {[code |-> TRUE, s |-> COLORS[key]] : key \in {"reset", "red", "bold"}}
ContentSegments ==
    {[code |-> FALSE, s |-> t] :
        t \in {<<"a">>, <<"m">>, <<"[", "0", "m">>, <<"3", "1">>, <<" ", "%">>,
               <<"BLOCK", "-">>, <<"A", "]">>}}

RECURSIVE Flatten(_)
Flatten(segs) == IF segs = <<>> THEN <<>> ELSE Head(segs).s \o Flatten(Tail(segs))

SegmentLists == UNION {[1..n -> CodeSegments \cup ContentSegments] : n \in 0..MaxSegments}

VisibleLenCalls == {CallOf("visible_len", <<segs>>) : segs \in SegmentLists}

W == 66               \* the width of the boxes (line 19)
PADDING_LEFT == 4     \* the left margin pr adds (line 24)

\* pr(text): the line print is given (lines 256-257).
pr(text) == Rep(" ", PADDING_LEFT) \o text

DrawRowRawLen(content, border_color) ==
    LET padding == W - 2 - Len(content) - 2
    IN  pr(border_color \o <<"BOX_V">> \o COLORS["reset"] \o <<" ">> \o content
               \o Rep(" ", IF padding < 0 THEN 0 ELSE padding) \o <<" ">>
               \o border_color \o <<"BOX_V">> \o COLORS["reset"])

\* draw_row(content, border_color): the line it prints (lines 265-269).
\* "BOX_V" is the double vertical bar of the borders, "BOX_H" the horizontal
\* one, "BOX_TL", "BOX_TR", "BOX_BL", "BOX_BR" the corners.
draw_row(content, border_color) ==
    LET v_len == visible_len(content)
        padding == W - 2 - v_len - 2
    IN  pr(border_color \o <<"BOX_V">> \o COLORS["reset"] \o <<" ">> \o content
               \o Rep(" ", IF padding < 0 THEN 0 ELSE padding) \o <<" ">>
               \o border_color \o <<"BOX_V">> \o COLORS["reset"])

\* A top border with a title in it, as lines 297-305 write it.
TitledTop(left, title, right) ==
    COLORS["cyan"] \o <<"BOX_TL">> \o Rep("BOX_H", left) \o <<" ">> \o COLORS["yellow"] \o title
        \o COLORS["cyan"] \o <<" ">> \o Rep("BOX_H", right) \o <<"BOX_TR">> \o COLORS["reset"]

PlainTop == COLORS["cyan"] \o <<"BOX_TL">> \o Rep("BOX_H", 64) \o <<"BOX_TR">> \o COLORS["reset"]
PlainBottom == COLORS["cyan"] \o <<"BOX_BL">> \o Rep("BOX_H", 64) \o <<"BOX_BR">> \o COLORS["reset"]

\* The border lines of the six boxes (lines 295-306).
BoxHeaders ==
    [MAIN_TOP   |-> PlainTop,
     MAIN_BOT   |-> PlainBottom,
     UPTIME_TOP |-> TitledTop(28, <<"U", "P", "T", "I", "M", "E">>, 28),
     UPTIME_BOT |-> PlainBottom,
     CPU_TOP    |-> TitledTop(27, <<"C", "P", "U", " ", "I", "N", "F", "O">>, 27),
     CPU_BOT    |-> PlainBottom,
     RAM_TOP    |-> TitledTop(28, <<"M", "E", "M", "O", "R", "Y">>, 28),
     RAM_BOT    |-> PlainBottom,
     STO_TOP    |-> TitledTop(27, <<"S", "T", "O", "R", "A", "G", "E">>, 28),
     STO_BOT    |-> PlainBottom,
     NET_TOP    |-> TitledTop(27, <<"N", "E", "T", "W", "O", "R", "K">>, 28),
     NET_BOT    |-> PlainBottom]

\* The contents rows are drawn with: the strings of visible_len's calls, and
\* coloured and plain text of every width around W - 4.
RowWidths == (W - 10)..(W + 4)
RowContents ==
    SegmentLists
        \cup {<<[code |-> TRUE, s |-> COLORS["red"]], [code |-> FALSE, s |-> Rep("x", n)],
                [code |-> TRUE, s |-> COLORS["reset"]]>> : n \in RowWidths}
        \cup {<<[code |-> FALSE, s |-> Rep("x", n)]>> : n \in RowWidths}

DrawRowCalls == {CallOf("draw_row", <<segs>>) : segs \in RowContents}
PrCalls == {CallOf("pr", <<name>>) : name \in DOMAIN BoxHeaders}

GetColorCalls == {CallOf("get_color_by_percent", <<p>>) : p \in BarPercents}

HelperCalls == DrawBarCalls \cup GetColorCalls \cup GetSizeCalls \cup VisibleLenCalls
                   \cup DrawRowCalls \cup PrCalls

\* What a call of a helper leaves alone: everything but ret and pc.
helper_frame == <<call, config_json, args_log, cfg, old_net, net, cpu, mem, disk, ping, sent, recv,
                  log_path, fh, screen, parts, exit_code, raised_at, signalled, volumes,
                  reads, iters, done_iters, writes, runs, probe, vols>>

\* draw_bar is called and returns.
CallDrawBar ==
    /\ pc = "helper"
    /\ call.fn = "draw_bar"
    /\ ret' = draw_bar(call.args[1], call.args[2], cfg)
    /\ pc' = "returned"
    /\ UNCHANGED helper_frame

\* get_color_by_percent is called and returns.
CallGetColorByPercent ==
    /\ pc = "helper"
    /\ call.fn = "get_color_by_percent"
    /\ ret' = ColorByPercent(call.args[1], cfg)
    /\ pc' = "returned"
    /\ UNCHANGED helper_frame

\* visible_len is called and returns.
CallVisibleLen ==
    /\ pc = "helper"
    /\ call.fn = "visible_len"
    /\ ret' = Returned(visible_len(Flatten(call.args[1])))
    /\ pc' = "returned"
    /\ UNCHANGED helper_frame

\* draw_row is called and returns.
CallDrawRow ==
    /\ pc = "helper"
    /\ call.fn = "draw_row"
    /\ ret' = Returned(draw_row(Flatten(call.args[1]), COLORS["cyan"]))
    /\ pc' = "returned"
    /\ UNCHANGED helper_frame

\* pr is called and returns.
CallPr ==
    /\ pc = "helper"
    /\ call.fn = "pr"
    /\ ret' = Returned(pr(BoxHeaders[call.args[1]]))
    /\ pc' = "returned"
    /\ UNCHANGED helper_frame

\* get_size is called and returns.
CallGetSize ==
    /\ pc = "helper"
    /\ call.fn = "get_size"
    /\ ret' = get_size(call.args[1])
    /\ pc' = "returned"
    /\ UNCHANGED helper_frame

InitHelpers ==
    /\ call \in HelperCalls
    /\ ret = NoCall
    /\ cfg \in (IF call.fn \in {"draw_bar", "get_color_by_percent"}
                THEN HelperConfigs ELSE {load_config([st |-> "absent"])})
    /\ pc = "helper"
    /\ config_json = [st |-> "absent"]
    /\ args_log = FALSE
    /\ volumes = <<>>
    /\ log_path = NoFile
    /\ iters = 0 /\ done_iters = 0 /\ writes = 0 /\ runs = 1
    /\ raised_at = "none"
    /\ old_net = Fresh.old_net /\ net = Fresh.net
    /\ cpu = Fresh.cpu /\ mem = Fresh.mem /\ disk = Fresh.disk
    /\ ping = Fresh.ping /\ sent = Fresh.sent /\ recv = Fresh.recv
    /\ fh = Fresh.fh /\ screen = Fresh.screen /\ parts = Fresh.parts
    /\ exit_code = Fresh.exit_code /\ signalled = Fresh.signalled
    /\ reads = Fresh.reads /\ probe = Fresh.probe /\ vols = Fresh.vols

NextHelpers ==
    \/ CallDrawBar
    \/ CallGetColorByPercent
    \/ CallGetSize
    \/ CallVisibleLen
    \/ CallDrawRow
    \/ CallPr

SpecHelpers == InitHelpers /\ [][NextHelpers]_vars

-----------------------------------------------------------------------------
(* The claims.                                                              *)

\* The display without the closing message of line 405.
FrameOf(scr) ==
    IF scr # <<>> /\ scr[Len(scr)] = Text("Stopped.") THEN SubSeq(scr, 1, Len(scr) - 1) ELSE scr

FrameComplete(scr) ==
    scr # <<>> /\ scr[1] = Text("MAIN_TOP") /\ scr[Len(scr)] = Text("NET_BOT")

NoFrameYet(scr) == scr = <<Text("Starting System Monitor...")>>

NetShowsOffline(scr) ==
    \E i \in 1..(Len(scr) - 1) : scr[i] = Text("NET_TOP") /\ scr[i + 1] = Text("Ping Offline")

IsDataRow(r) == Len(r) = 7 /\ r[1] = "HH:MM:SS"

LoggingOn == "logging_enabled" \in DOMAIN cfg /\ Truthy(cfg["logging_enabled"])

\* C1: whenever the interrupt signal has been delivered to the running loop,
\* at whatever statement, the loop is Stopped: the closing message is the last
\* line printed, the exit status is 0, and no statement of an iteration runs
\* after the signal.
C1_InterruptStopsTheLoop ==
    signalled =>
        /\ pc = "stopped"
        /\ exit_code = <<0>>
        /\ screen # <<>> /\ screen[Len(screen)] = Text("Stopped.")

\* C2: no statement of an iteration (the probe, a volume read, the root
\* volume's disk usage, the log write, the rendering of a value) ends the
\* process by raising: the loop leaves Running by the signal alone.
C2_OnlyTheSignalEndsTheLoop ==
    /\ raised_at \notin LoopPcs
    /\ (pc = "crashed" => raised_at = "args")

\* A document whose object-valued fields, where it supplies them, are objects.
WellShaped(d) ==
    /\ d.k = "obj"
    /\ \A f \in {"thresholds", "colors"} : f \in DOMAIN d.m => d.m[f].k = "obj"

Loaded == pc = "args"

\* C3: after load_config on a document that is a JSON object, cfg holds every
\* field of the defaults and every sub-key of thresholds and colors, a sub-key
\* the document leaves out having its default value.
C3_MergedConfigHasEveryField ==
    (Loaded /\ config_json.st = "parsed" /\ WellShaped(config_json.doc)) =>
        \A f \in DOMAIN DEFAULT_CONFIG :
            /\ f \in DOMAIN cfg
            /\ DEFAULT_CONFIG[f].k = "obj" =>
                  /\ cfg[f].k = "obj"
                  /\ \A sub \in DOMAIN DEFAULT_CONFIG[f].m :
                        /\ sub \in DOMAIN cfg[f].m
                        /\ \/ (f \in DOMAIN config_json.doc.m
                                  /\ sub \in DOMAIN config_json.doc.m[f].m)
                           \/ cfg[f].m[sub] = DEFAULT_CONFIG[f].m[sub]

\* The file is absent, unreadable, not JSON, or JSON of the wrong shape.
WrongShape(file) ==
    \/ file.st # "parsed"
    \/ file.doc.k # "obj"
    \/ ("colors" \in DOMAIN file.doc.m /\ file.doc.m["colors"].k # "obj")

\* C4: when config.json is absent, unparseable, not an object, or has a
\* colors member that is no object, cfg after load_config is the all-defaults
\* configuration in every field.
C4_WrongShapeGivesDefaults ==
    (Loaded /\ WrongShape(config_json)) => cfg = DEFAULT_CONFIG

\* C5: in the merged configuration every value the document supplies, at the
\* top level or as a sub-key of thresholds or colors, overrides the default,
\* and every default the document does not mention is preserved.
C5_SuppliedOverridesRestPreserved ==
    (Loaded /\ config_json.st = "parsed" /\ WellShaped(config_json.doc)) =>
        LET doc == config_json.doc.m
        IN  \A f \in DOMAIN DEFAULT_CONFIG :
               IF DEFAULT_CONFIG[f].k = "obj"
               THEN /\ cfg[f].k = "obj"
                    /\ \A sub \in DOMAIN DEFAULT_CONFIG[f].m :
                          /\ sub \in DOMAIN cfg[f].m
                          /\ cfg[f].m[sub] =
                                IF f \in DOMAIN doc /\ sub \in DOMAIN doc[f].m
                                THEN doc[f].m[sub] ELSE DEFAULT_CONFIG[f].m[sub]
               ELSE cfg[f] = IF f \in DOMAIN doc THEN doc[f] ELSE DEFAULT_CONFIG[f]

\* The example of C5, which the code satisfies: {"colors": {"value_low": "blue"}}
\* gives colors.label = "red" and colors.value_low = "blue".
C5_ExampleHolds ==
    (Loaded /\ config_json =
        Parsed(DocOf(Missing, Missing, Missing, JObj([key \in {"value_low"} |-> JStr(S_blue)])))) =>
        /\ cfg["colors"].m["label"] = JStr(S_red)
        /\ cfg["colors"].m["value_low"] = JStr(S_blue)

\* C6: with logging enabled and no log file before the first write, between
\* iterations the file is one header row followed by one data row per
\* completed iteration, and the row log_metrics has just written is time, cpu,
\* memory percent, disk percent, download rate, upload rate, ping (0 when
\* the probe was unreachable).
C6_LogIsHeaderThenRowPerIteration ==
    /\ (pc = "cpu" /\ LoggingOn /\ done_iters >= 1) =>
          /\ log_path.exists
          /\ Len(log_path.rows) = done_iters + 1
          /\ log_path.rows[1] = HeaderRow
          /\ \A i \in 2..Len(log_path.rows) : IsDataRow(log_path.rows[i])
    /\ (pc = "clear" /\ LoggingOn) =>
          log_path.rows[Len(log_path.rows)] =
              <<"HH:MM:SS", cpu, mem, disk, recv, sent, IF ping = None THEN 0 ELSE ping.v>>

AfterRates == LogPcs \cup {"clear"} \cup RenderPcs

\* C7: in every iteration the upload and download rates are the differences of
\* the counters read in this iteration and in the one before (at first, the
\* counters read at startup) divided by refresh_rate, and the counters read in
\* this iteration are the previous counters of the next; counters (1000, 2000)
\* then (2000, 4000) with refresh_rate 1.0 give 1000 B/s up and 2000 B/s down.
C7_RatesAreCounterDeltasOverInterval ==
    LET k == Len(reads)
    IN  /\ (pc = "cpu" /\ k >= 1) => old_net = reads[k]
        /\ pc \in {"disk", "ping", "rates"} => (old_net = reads[k - 1] /\ net = reads[k])
        /\ pc \in AfterRates =>
              /\ sent = Rate(reads[k].bytes_sent - reads[k - 1].bytes_sent, cfg["refresh_rate"])
              /\ recv = Rate(reads[k].bytes_recv - reads[k - 1].bytes_recv, cfg["refresh_rate"])
              /\ old_net = reads[k]
        /\ (pc = "log" /\ cfg["refresh_rate"] = JNum(1, 1)
               /\ reads = <<[bytes_sent |-> 1000, bytes_recv |-> 2000],
                            [bytes_sent |-> 2000, bytes_recv |-> 4000]>>) =>
              (sent = [n |-> 1000, d |-> 1] /\ recv = [n |-> 2000, d |-> 1])

\* A second iteration has computed non-zero rates from the counters of the first.
C7_Witness ==
    /\ pc = "log"
    /\ Len(reads) = 3
    /\ reads[3] # reads[2]
    /\ reads[2] # reads[1]
    /\ sent.n > 0

\* C8: the connectivity probe never raises; when the connection attempt fails
\* get_ping returns None, the frame of that iteration shows Offline in the
\* network box, and the loop is at the first statement of the next iteration.
C8_ProbeFailureIsAbsorbed ==
    /\ raised_at # "ping"
    /\ probe = "failed" => ping = None
    /\ (probe = "failed" /\ pc = "cpu") =>
          (FrameComplete(screen) /\ NetShowsOffline(screen))

\* An iteration whose probe failed has drawn its frame.
C8_Witness ==
    /\ probe = "failed"
    /\ pc = "cpu"
    /\ ping = None
    /\ NetShowsOffline(screen)

\* C9: the loop never enters Stopped with a cleared or partly drawn frame on
\* the display: a frame that was begun is drawn to its last line first.
C9_NoPartialFrameAtStop ==
    pc = "stopped" => (NoFrameYet(FrameOf(screen)) \/ FrameComplete(FrameOf(screen)))

\* C10: whenever no write is in progress the log file, if it exists, is the
\* header row followed by at least one complete data row: no write leaves the
\* header without its data row, and no interrupt leaves part of a write.
C10_LogWriteIsAtomic ==
    (~fh.open /\ log_path.exists) =>
        /\ Len(log_path.rows) >= 2
        /\ log_path.rows[1] = HeaderRow
        /\ \A i \in 2..Len(log_path.rows) : IsDataRow(log_path.rows[i])

\* The glyphs of a bar: what draw_bar put between the colour code that
\* follows "[" and the reset code that precedes "]".
BarGlyphs(bar) == SubSeq(bar, 7, Len(bar) - 5)

\* floor(x / 100), pinned down by its defining inequalities.
FloorHundredth(x) == CHOOSE k \in -400..400 : 100 * k <= x /\ x < 100 * (k + 1)

Clamp(x, lo, hi) == IF x < lo THEN lo ELSE IF x > hi THEN hi ELSE x

Returns(fn) == pc = "returned" /\ call.fn = fn

\* C11: draw_bar(p, L) returns "[", a colour code, exactly L glyphs and the
\* reset code, "]"; the first clamp(floor(L * p / 100), 0, L) glyphs are
\* solid blocks and the rest filler; none is solid for p <= 0, all for p >= 100.
C11_BarHasLengthGlyphs ==
    Returns("draw_bar") =>
        LET p == call.args[1]
            L == call.args[2]
            filled == Clamp(FloorHundredth(L * p), 0, L)
        IN  /\ ~ret.raised
            /\ ret.v[1] = "[" /\ ret.v[Len(ret.v)] = "]"
            /\ SubSeq(ret.v, 2, 6) \in {COLORS[key] : key \in DOMAIN COLORS}
            /\ SubSeq(ret.v, Len(ret.v) - 4, Len(ret.v) - 1) = COLORS["reset"]
            /\ Len(BarGlyphs(ret.v)) = L
            /\ \A i \in 1..L : BarGlyphs(ret.v)[i] = IF i <= filled THEN "BLOCK" ELSE "-"
            /\ filled >= 0
            /\ p <= 0 => filled = 0
            /\ p >= 100 => filled = L

\* A bar partly filled, and bars asked for percentages outside 0..100.
C11_Witness ==
    /\ Returns("draw_bar")
    /\ call.args = <<57, 15>>
    /\ BarGlyphs(ret.v) = Rep("BLOCK", 8) \o Rep("-", 7)

\* The tier whose configured colour the code is: 1 low, 2 mid, 3 high.
TierOf(code, c) ==
    CHOOSE t \in 1..3 :
        code = get_ansi(c["colors"].m[<<"value_low", "value_mid", "value_high">>[t]])

\* p < x for a threshold x, a JSON number n/d with d > 0.
Below(p, x) == p * x.d < x.n

BelowSuffixRange(ds) == Len(ds) <= Len(Units)

\* n / 1024^k to two decimals with the k-th suffix and "B", k the least index
\* with n / 1024^k < 1024: a count of k + 1 digits is its first digit and the
\* fraction the other digits make; the last decimal rounded either way.
SizeTexts(ds) ==
    LET h == Hundredths(ds, Len(ds) - 1)
    IN  {JStr(Decimal2(x) \o Units[Len(ds)] \o <<"B">>) :
            x \in IF h.exact THEN {h.floor} ELSE {h.floor, h.floor + 1}}

\* What the claim's examples say of the call.
SizeExamples(ds, text) ==
    /\ ds = <<0>> => text = <<"0", ".", "0", "0", "B">>
    /\ ds = <<1, 0>> => text = <<"1", ".", "0", "0", "K", "B">>
    /\ ds = <<1, 512>> => text = <<"1", ".", "5", "0", "K", "B">>
    /\ ds = <<1, 0, 0, 0>> => text = <<"1", ".", "0", "0", "G", "B">>

\* C13: for every byte count 0 <= n < 1024^6, get_size(n) is n / 1024^k to two
\* decimals, then the k-th suffix of (none, K, M, G, T, P) and B, k the least
\* index with n / 1024^k < 1024; get_size(0) = "0.00B", get_size(1024) =
\* "1.00KB", get_size(1536) = "1.50KB", get_size(1073741824) = "1.00GB".
C13_SizeIsScaledToLeastSuffix ==
    (Returns("get_size") /\ BelowSuffixRange(call.args[1])) =>
        /\ ~ret.raised
        /\ ret.v \in SizeTexts(call.args[1])
        /\ SizeExamples(call.args[1], ret.v.s)

\* The counts C13 does hold of: every count that the division of line 131
\* does not round up to 1024^6, the four examples among them.
C13_HoldsBelowTheLastRounding ==
    (Returns("get_size") /\ BelowSuffixRange(call.args[1])
        /\ call.args[1] # [i \in 1..Len(Units) |-> 1023]) =>
        /\ ret.v \in SizeTexts(call.args[1])
        /\ SizeExamples(call.args[1], ret.v.s)
        /\ call.args[1] = <<2, 691>> => ret.v.s = <<"2", ".", "6", "7", "K", "B">>
        /\ call.args[1] = <<1, 128>> => ret.v.s = <<"1", ".", "1", "2", "K", "B">>
        /\ call.args[1] = <<128, 128, 0, 0, 0, 1>> =>
              ret.v.s = <<"1", "2", "8", ".", "1", "2", "P", "B">>

\* C14: for a byte count of 1024^6 or more get_size returns a string: the
\* count scaled to the last suffix, P, then PB.
C14_BeyondLastSuffixStillFormats ==
    (Returns("get_size") /\ ~BelowSuffixRange(call.args[1])) =>
        /\ ~ret.raised
        /\ ret.v.k = "str"
        /\ SubSeq(ret.v.s, Len(ret.v.s) - 1, Len(ret.v.s)) = <<"P", "B">>

\* The characters of the content segments, the control sequences left out.
RECURSIVE Plain(_)
Plain(segs) ==
    IF segs = <<>> THEN <<>>
    ELSE (IF Head(segs).code THEN <<>> ELSE Head(segs).s) \o Plain(Tail(segs))

\* C15: for a string put together from content segments and colour codes in
\* any number and order, visible_len is the number of characters of the
\* content: the codes count for nothing and no content character is dropped.
C15_VisibleLenIsPlainLength ==
    Returns("visible_len") =>
        /\ ret = Returned(Len(Plain(call.args[1])))
        /\ Sub(Flatten(call.args[1])) = Plain(call.args[1])

\* Content between two codes, made of the characters that end a code.
C15_Witness ==
    /\ Returns("visible_len")
    /\ Len(call.args[1]) = 3
    /\ call.args[1][1].code /\ call.args[1][3].code
    /\ call.args[1][2].s = <<"[", "0", "m">>
    /\ ret = Returned(3)

\* A printed line without the left margin of pr and without its colour
\* codes: what is seen of the box.
Seen(line) == Sub(SubSeq(line, PADDING_LEFT + 1, Len(line)))

\* C16: every top and bottom border line, titled or not, is W wide; draw_row
\* puts the content, untruncated, between "BOX_V " and " BOX_V" with
\* max(0, (W - 4) - visible width) spaces after it, so that a row of content
\* no wider than W - 4 is W wide, its right border in column W, and a wider
\* content gets no padding and both borders.
C16_BoxLinesAreWWide ==
    /\ Returns("pr") =>
          /\ Len(Seen(ret.v)) = W
          /\ Seen(ret.v)[1] \in {"BOX_TL", "BOX_BL"}
          /\ Seen(ret.v)[W] \in {"BOX_TR", "BOX_BR"}
    /\ Returns("draw_row") =>
          LET content == Plain(call.args[1])
              fill == IF W - 4 - Len(content) > 0 THEN W - 4 - Len(content) ELSE 0
          IN  /\ SubSeq(ret.v, 1, PADDING_LEFT) = Rep(" ", PADDING_LEFT)
              /\ Seen(ret.v) = <<"BOX_V", " ">> \o content \o Rep(" ", fill) \o <<" ", "BOX_V">>
              /\ Len(content) <= W - 4 => (Len(Seen(ret.v)) = W /\ Seen(ret.v)[W] = "BOX_V")
              /\ Len(content) > W - 4 => Len(Seen(ret.v)) = Len(content) + 4

\* A coloured content exactly W - 4 wide: one space before the right border.
C16_Witness ==
    /\ Returns("draw_row")
    /\ Len(call.args[1]) = 3
    /\ call.args[1][1].code
    /\ Len(Plain(call.args[1])) = W - 4
    /\ Len(Seen(ret.v)) = W
    /\ SubSeq(Seen(ret.v), W - 2, W) = <<"x", " ", "BOX_V">>

\* The rows of the volumes from the k-th on whose pass of the loop drew one.
RECURSIVE VolumeRows(_, _)
VolumeRows(outcomes, k) ==
    IF k > Len(outcomes) THEN <<>>
    ELSE (IF outcomes[k] = "drawn" THEN <<Line("Volume", k, 1)>> ELSE <<>>)
             \o VolumeRows(outcomes, k + 1)

\* The lines of the storage box on the display, its borders left out.
StorageRows(scr) ==
    LET top == CHOOSE i \in 1..Len(scr) : scr[i] = Text("STO_TOP")
        bot == CHOOSE i \in 1..Len(scr) : scr[i] = Text("STO_BOT")
    IN  SubSeq(scr, top + 1, bot - 1)

\* C17: no volume read ends the loop; when the storage box has been closed
\* every volume has been visited, each volume that was read has its row, in
\* the order of the enumeration, only the volumes whose read failed (or that
\* the loop passes over) have none, the bottom border is the last line, and
\* the network section is next.
C17_FailedVolumeSkipsOnlyItsRow ==
    /\ raised_at \notin {"sto_top", "sto_part"}
    /\ pc = "netsec" =>
          /\ Len(vols) = Len(volumes)
          /\ \A k \in 1..Len(vols) : vols[k] \in {"drawn", "failed", "skipped"}
          /\ screen[Len(screen)] = Text("STO_BOT")
          /\ StorageRows(screen) = VolumeRows(vols, 1)

\* The read of the second of three volumes failed; the first and the third
\* have their rows.
C17_Witness ==
    /\ pc = "netsec"
    /\ vols = <<"drawn", "failed", "drawn">>
    /\ StorageRows(screen) = <<Line("Volume", 1, 1), Line("Volume", 3, 1)>>

\* The frame's network box shows the latency ms.
NetShowsLatency(scr, ms) ==
    \E i \in 1..(Len(scr) - 1) : scr[i] = Text("NET_TOP") /\ scr[i + 1] = Line("Ping ms", ms, 1)

\* C18: when an iteration has drawn its frame and its connection attempt
\* succeeded, whatever the latency measured (0 ms too), the network box shows
\* that latency in milliseconds and not Offline.
C18_OfflineOnlyIfProbeFailed ==
    (pc = "cpu" /\ probe = "connected" /\ FrameComplete(screen)) =>
        /\ ~NetShowsOffline(screen)
        /\ NetShowsLatency(screen, ping.v)

\* What does hold: a probe that succeeded with a latency other than 0 is
\* shown with its latency.
C18_HoldsForNonZeroLatency ==
    (pc = "cpu" /\ probe = "connected" /\ FrameComplete(screen) /\ ping.v # 0) =>
        /\ ~NetShowsOffline(screen)
        /\ NetShowsLatency(screen, ping.v)

====
